---------------------------- MODULE Spec2Model ----------------------------
(***************************************************************************)
(* A model of mutatex/utils.py: the parallel FoldX dispatcher, the         *)
(* position-list matcher, the residue-list filter, the residue identifier  *)
(* builders, the mutation-list parser and the energy file writer/reader.   *)
(*                                                                         *)
(* Python strings are modelled as sequences of one-character strings, so   *)
(* that indexing (x[0][1]), slicing (x[1:]), int() and string comparison   *)
(* are computed the way the code computes them.                            *)
(***************************************************************************)
EXTENDS Integers, Sequences, FiniteSets, TLC

VARIABLES
    \* ---- parallel_foldx_run / foldx_worker ----
    pc,         \* position of the thread calling parallel_foldx_run
    nruns,      \* len(foldx_runs)
    np,         \* the worker bound given to ThreadPool
    hangs,      \* hangs[r]: run r's run() never returns
    taskq,      \* the pool's task queue: runs submitted and not yet taken
    worker,     \* worker[w]: the run worker thread w executes, 0 when idle
    startlog,   \* the names foldx_worker logged ("starting FoldX run %s")
    outq,       \* the imap_unordered iterator: (name, success) in completion order
    ret,        \* the list parallel_foldx_run returns
    \* ---- filter_reslist ----
    fpc,        \* "call" before filter_reslist runs, "done" after it
    reslist,    \* the residue list given to filter_reslist
    ref,        \* the reference list given to filter_reslist
    fres,       \* what the call produced: [err, val]
    \* ---- parse_poslist_file ----
    ppc,        \* "call" while the file is read, "done" or "TypeError" after
    unique_residues,    \* the structure-derived residue list
    posfile,    \* the lines of the position list file
    pline,      \* how many lines the loop has consumed
    praised,    \* the step that raised: "grammar", "tokens", "match", or ""
    out,        \* the canonical tuples appended so far
    pres,       \* the list parse_poslist_file returns
    \* ---- get_residue_list / get_foldx_sequence ----
    rpc,        \* "call", then the builder that ran
    structure,  \* the parsed PDB structure: models of chains of residues
    multimers,  \* the multimers flag
    rres,       \* what the builder produced: [err, val]
    \* ---- parse_mutlist_file ----
    mpc,        \* "call" while the file is read, "done" or "TypeError" after
    mutfile,    \* the lines of the mutation list file
    mline,      \* how many lines the loop has consumed
    restypes,   \* the residue types collected so far
    \* ---- save_energy_file / parse_ddg_file ----
    epc,        \* "call", "saved" after save_energy_file, "parsed" after parse_ddg_file
    data,       \* the data matrix given to save_energy_file (rows of numbers)
    axis,       \* the axis the statistics are computed along (the trial axis)
    do_min,     \* the do_min flag (do_avg is set)
    do_max,     \* the do_max flag
    efile,      \* the rows of text fields np.savetxt wrote
    full,       \* the full flag given to parse_ddg_file
    eres,       \* what parse_ddg_file produced: [err, val]
    \* ---- termination_handler ----
    spc,        \* the process: "run", "finished" (the loop ended) or "exited"
    nres,       \* the residues the interrupted loop goes through
    ires,       \* the residue the loop is at
    iat,        \* "try" inside the try block of the loop body, "append" after it
    skipped,    \* the residues the loop's except clause skipped
    hstack,     \* the termination_handler calls in progress, innermost last
    delivered,  \* how many termination signals were delivered
    hevents,    \* what the handlers did, in order: <<step, delivery>>
    logging_open,   \* FALSE once log.shutdown() has run
    exit_status \* the exit status of the process, -1 while it lives

poolVars == <<pc, nruns, np, hangs, taskq, worker, startlog, outq, ret>>

filterVars == <<fpc, reslist, ref, fres>>

posVars == <<ppc, unique_residues, posfile, pline, praised, out, pres>>

resVars == <<rpc, structure, multimers, rres>>

mutVars == <<mpc, mutfile, mline, restypes>>

energyVars == <<epc, data, axis, do_min, do_max, efile, full, eres>>

sigVars ==
    <<spc, nres, ires, iat, skipped, hstack, delivered, hevents, logging_open,
      exit_status>>

vars == <<poolVars, filterVars, posVars, resVars, mutVars, energyVars, sigVars>>

\* what the operations of one component leave alone
notPoolVars == <<filterVars, posVars, resVars, mutVars, energyVars, sigVars>>
notFilterVars == <<poolVars, posVars, resVars, mutVars, energyVars, sigVars>>
notPosVars == <<poolVars, filterVars, resVars, mutVars, energyVars, sigVars>>
notResVars == <<poolVars, filterVars, posVars, mutVars, energyVars, sigVars>>
notMutVars == <<poolVars, filterVars, posVars, resVars, energyVars, sigVars>>
notEnergyVars == <<poolVars, filterVars, posVars, resVars, mutVars, sigVars>>
notSigVars == <<poolVars, filterVars, posVars, resVars, mutVars, energyVars>>

-----------------------------------------------------------------------------
(* Bounds of the model *)

MaxRuns == 3
MaxNp == 2
MaxResLen == 2
MaxRefLen == 2
MaxUniqueLen == 2
MaxPosLines == 2
MaxModels == 2
MaxMutLines == 3
MaxTrials == 3
MaxEntries == 2
MaxSignals == 2
MaxChainLen == 3

-----------------------------------------------------------------------------
(* Generic helpers *)

Range(s) == { s[i] : i \in 1..Len(s) }

SeqsUpTo(S, n) == UNION { [1..k -> S] : k \in 0..n }

\* the rearrangements of a sequence
Rearrangements(s) ==
    { [i \in 1..Len(s) |-> s[f[i]]] :
        f \in { g \in [1..Len(s) -> 1..Len(s)] : \A i, j \in 1..Len(s) : g[i] = g[j] => i = j } }

\* the characters of the model's strings, in code point order
CharSeq ==
    << " ", "#", "-", ".", "0", "1", "2", "3", "4", "5", "6", "7", "8", "9",
       "A", "B", "C", "D", "E", "F", "G", "H", "I", "J", "K", "L", "M",
       "N", "O", "P", "Q", "R", "S", "T", "U", "V", "W", "X", "Y", "Z",
       "_", "a", "b", "c", "d", "e", "f", "g", "h", "i", "j", "k", "l", "m",
       "n", "o", "p", "q", "r", "s", "t", "u", "v", "w", "x", "y", "z" >>

Ord(c) == CHOOSE i \in 1..Len(CharSeq) : CharSeq[i] = c

Digits == { "0", "1", "2", "3", "4", "5", "6", "7", "8", "9" }

DigitVal(c) == Ord(c) - Ord("0")

\* s[k-1:] of Python, k counted from 1
StrFrom(s, k) == SubSeq(s, k, Len(s))

\* Python's < on str: lexicographic by code point
RECURSIVE StrLess(_, _)
StrLess(a, b) ==
    IF a = <<>> THEN b # <<>>
    ELSE IF b = <<>> THEN FALSE
    ELSE IF a[1] = b[1] THEN StrLess(Tail(a), Tail(b))
    ELSE Ord(a[1]) < Ord(b[1])

\* int(s) for a string of decimal digits with an optional sign
RECURSIVE NatOf(_)
NatOf(s) ==
    IF s = <<>> THEN 0
    ELSE 10 * NatOf(SubSeq(s, 1, Len(s) - 1)) + DigitVal(s[Len(s)])

ToInt(s) == IF s[1] = "-" THEN 0 - NatOf(Tail(s)) ELSE NatOf(s)

\* "%d" % n
RECURSIVE NatToStr(_)
NatToStr(n) ==
    IF n < 10 THEN <<CharSeq[Ord("0") + n]>>
    ELSE Append(NatToStr(n \div 10), CharSeq[Ord("0") + (n % 10)])

IntToStr(n) == IF n < 0 THEN <<"-">> \o NatToStr(0 - n) ELSE NatToStr(n)

Uppers ==
    { "A", "B", "C", "D", "E", "F", "G", "H", "I", "J", "K", "L", "M",
      "N", "O", "P", "Q", "R", "S", "T", "U", "V", "W", "X", "Y", "Z" }

\* str.strip(): leading and trailing blanks removed
RECURSIVE Strip(_)
Strip(s) ==
    IF s = <<>> THEN s
    ELSE IF s[1] = " " THEN Strip(Tail(s))
    ELSE IF s[Len(s)] = " " THEN Strip(SubSeq(s, 1, Len(s) - 1))
    ELSE s

\* str.split(sep): the pieces between the separators, empty pieces kept
RECURSIVE SplitAt(_, _, _)
SplitAt(s, sep, piece) ==
    IF s = <<>> THEN <<piece>>
    ELSE IF s[1] = sep THEN <<piece>> \o SplitAt(Tail(s), sep, <<>>)
    ELSE SplitAt(Tail(s), sep, Append(piece, s[1]))

Split(s, sep) == SplitAt(s, sep, <<>>)

\* sep.join(pieces)
RECURSIVE JoinStr(_, _)
JoinStr(pieces, sep) ==
    IF pieces = <<>> THEN <<>>
    ELSE IF Len(pieces) = 1 THEN pieces[1]
    ELSE pieces[1] \o <<sep>> \o JoinStr(Tail(pieces), sep)

\* sorted() of a sequence of strings
RECURSIVE InsertStr(_, _)
InsertStr(sorted, x) ==
    IF sorted = <<>> THEN <<x>>
    ELSE IF StrLess(x, sorted[1]) THEN <<x>> \o sorted
    ELSE <<sorted[1]>> \o InsertStr(Tail(sorted), x)

RECURSIVE SortedStrs(_)
SortedStrs(s) ==
    IF s = <<>> THEN <<>>
    ELSE InsertStr(SortedStrs(SubSeq(s, 1, Len(s) - 1)), s[Len(s)])

-----------------------------------------------------------------------------
(***************************************************************************)
(* Residue list filter: filter_reslist(reslist, ref)                       *)
(***************************************************************************)

\* "%s%s%d" % (res_code, chain, resid)
ResToken(code, chain, num) == <<code, chain>> \o num

\* the residue identifiers the inputs are drawn from: one-chain entries and
\* homomer groups over chains A and B
ResCodes == { "G", "S" }
ResChains == { "A", "B" }
ResNumbers == { <<"9">>, <<"1", "2">> }

ResUniverse ==
    { <<ResToken(c, ch, n)>> : c \in ResCodes, ch \in ResChains, n \in ResNumbers }
    \cup { <<ResToken(c, "A", n), ResToken(c, "B", n)>> : c \in ResCodes, n \in ResNumbers }

\* the reference entries: the same identifiers without the residue type
RefUniverse ==
    { <<<<ch>> \o n>> : ch \in ResChains, n \in ResNumbers }
    \cup { << <<"A">> \o n, <<"B">> \o n >> : n \in ResNumbers }

FilterOff == fpc = "off" /\ reslist = <<>> /\ ref = <<>> /\ fres = <<>>

FilterInit ==
    /\ fpc = "call"
    /\ reslist \in SeqsUpTo(ResUniverse, MaxResLen)
    /\ ref \in SeqsUpTo(RefUniverse, MaxRefLen)
    /\ fres = <<>>

\* edited_reslist = [ set([ x[1:] for x in r ]) for r in reslist ]
edited_reslist(rl) ==
    [ i \in 1..Len(rl) |-> { StrFrom(rl[i][j], 2) : j \in 1..Len(rl[i]) } ]

\* faulty variant: the inner loop without its break, the last match is kept
MutFirstMatch(rl, p) ==
    LET hits == { i \in 1..Len(rl) : Range(p) \subseteq edited_reslist(rl)[i] }
    IN  IF hits = {} THEN 0 ELSE CHOOSE i \in hits : \A j \in hits : i >= j

\* the inner loop: the first i with set(p).issubset(edited_reslist[i]), 0 if none
FirstMatch(rl, p) ==
    LET hits == { i \in 1..Len(rl) : Range(p) \subseteq edited_reslist(rl)[i] }
    IN  IF hits = {} THEN 0 ELSE CHOOSE i \in hits : \A j \in hits : i <= j

\* the outer loop from ref[k] on: the entries kept, or the not-found error
RECURSIVE FilterLoop(_, _, _, _)
FilterLoop(rl, rf, k, filtered) ==
    IF k > Len(rf) THEN [err |-> "none", val |-> filtered]
    ELSE LET i == FirstMatch(rl, rf[k])
         IN  IF i = 0 THEN [err |-> "TypeError", val |-> <<>>]
             ELSE FilterLoop(rl, rf, k + 1,
                     IF rl[i] \in Range(filtered) THEN filtered
                     ELSE Append(filtered, rl[i]))

\* key=lambda x: (x[0][1], int(x[0][2:])) and the order of two keys
ChainOf(x) == x[1][2]
NumberOf(x) == ToInt(StrFrom(x[1], 3))

\* faulty variant: the residue number compared as a string
MutKeyLess(x, y) ==
    \/ Ord(ChainOf(x)) < Ord(ChainOf(y))
    \/ ChainOf(x) = ChainOf(y) /\ StrLess(StrFrom(x[1], 3), StrFrom(y[1], 3))

KeyLess(x, y) ==
    \/ Ord(ChainOf(x)) < Ord(ChainOf(y))
    \/ ChainOf(x) = ChainOf(y) /\ NumberOf(x) < NumberOf(y)

\* sorted(): stable, an entry goes after the entries whose key is not greater
RECURSIVE InsertByKey(_, _)
InsertByKey(sorted, x) ==
    IF sorted = <<>> THEN <<x>>
    ELSE IF KeyLess(x, sorted[1]) THEN <<x>> \o sorted
    ELSE <<sorted[1]>> \o InsertByKey(Tail(sorted), x)

\* faulty variant: the result left in selection order
MutSortedByKey(s) == s

RECURSIVE SortedByKey(_)
SortedByKey(s) ==
    IF s = <<>> THEN <<>>
    ELSE InsertByKey(SortedByKey(SubSeq(s, 1, Len(s) - 1)), s[Len(s)])

filter_reslist(rl, rf) ==
    LET r == FilterLoop(rl, rf, 1, <<>>)
    IN  IF r.err # "none" THEN r
        ELSE [err |-> "none", val |-> SortedByKey(r.val)]

FilterReslist ==
    /\ fpc = "call"
    /\ fres' = filter_reslist(reslist, ref)
    /\ fpc' = "done"
    /\ UNCHANGED <<reslist, ref>>
    /\ UNCHANGED notFilterVars

FilterNext == FilterReslist

\* C5: when filter_reslist does not fail, its result is ordered by the chain
\* id of each entry's first element, then by the residue number as an integer.
C5_OrderedByChainThenNumber ==
    (fpc = "done" /\ fres.err = "none") =>
        \A i, j \in 1..Len(fres.val) :
            i < j =>
                \/ Ord(ChainOf(fres.val[i])) < Ord(ChainOf(fres.val[j]))
                \/ /\ ChainOf(fres.val[i]) = ChainOf(fres.val[j])
                   /\ NumberOf(fres.val[i]) <= NumberOf(fres.val[j])

\* residue 9 placed before residue 12 of the same chain, though selected after it
C5_Witness ==
    /\ fpc = "done" /\ fres.err = "none"
    /\ Len(fres.val) = 2
    /\ ref = << <<<<"A", "1", "2">>>>, <<<<"A", "9">>>> >>
    /\ NumberOf(fres.val[1]) = 9 /\ NumberOf(fres.val[2]) = 12
    /\ ChainOf(fres.val[1]) = "A" /\ ChainOf(fres.val[2]) = "A"

\* the full code-stripped token tuples of a residue list
StrippedRef(rl) ==
    [ i \in 1..Len(rl) |-> [ j \in 1..Len(rl[i]) |-> StrFrom(rl[i][j], 2) ] ]

\* no chain+number position belongs to two entries of the list
DisjointPositions(rl) ==
    \A i, j \in 1..Len(rl) :
        i # j => edited_reslist(rl)[i] \cap edited_reslist(rl)[j] = {}

\* val is rl sorted by (chain, number): the same entries, in key order
IsSortedReslist(val, rl) ==
    /\ val \in Rearrangements(rl)
    /\ \A i, j \in 1..Len(val) : i < j => ~KeyLess(val[j], val[i])

FullRefProperties ==
    /\ fres.err = "none"
    /\ IsSortedReslist(fres.val, reslist)
    /\ \A rl2 \in Rearrangements(reslist) : \A rf2 \in Rearrangements(ref) :
          filter_reslist(rl2, rf2) = fres
    /\ filter_reslist(fres.val, ref) = fres

\* C6 (as stated): for every reslist, with ref its full code-stripped tuples,
\* filter_reslist returns reslist sorted by (chain, number), the same for every
\* permutation of reslist and ref, and is idempotent.
C6_Original ==
    (fpc = "done" /\ ref = StrippedRef(reslist)) => FullRefProperties

\* C6 (amended): the same, for every reslist in which no chain+number position
\* belongs to two entries.
C6_FullRefSortsReslist ==
    (fpc = "done" /\ ref = StrippedRef(reslist) /\ DisjointPositions(reslist))
        => FullRefProperties

\* a two-entry list given in descending order and returned in ascending order
C6_Witness ==
    /\ fpc = "done"
    /\ ref = StrippedRef(reslist) /\ DisjointPositions(reslist)
    /\ Len(reslist) = 2
    /\ KeyLess(reslist[2], reslist[1])
    /\ fres.err = "none"
    /\ fres.val = <<reslist[2], reslist[1]>>

\* reslist[i] holds every token of reference entry ref[k], type letters aside
Holds(i, k) ==
    \A t \in Range(ref[k]) : \E j \in 1..Len(reslist[i]) : Tail(reslist[i][j]) = t

Holders(k) == { i \in 1..Len(reslist) : Holds(i, k) }

NoDuplicates(s) == \A i, j \in 1..Len(s) : s[i] = s[j] => i = j

\* C13 (as stated): the reslist entries that hold a reference entry are one
\* and the same entry, the result is made of these entries, each once; if a reference entry is held
\* by none, TypeError is raised and nothing is returned.
C13_Original ==
    fpc = "done" =>
        IF \A k \in 1..Len(ref) : Holders(k) # {}
        THEN /\ fres.err = "none"
             /\ \A k \in 1..Len(ref) :
                    Cardinality({ reslist[i] : i \in Holders(k) }) = 1
             /\ Range(fres.val) = UNION { { reslist[i] : i \in Holders(k) } : k \in 1..Len(ref) }
             /\ NoDuplicates(fres.val)
        ELSE fres.err = "TypeError" /\ fres.val = <<>>

\* C13 (amended): for each reference entry the first reslist entry, in list
\* order, that holds its tokens is selected; the result is made of the selected
\* entries, each once; if a reference entry is held by none, TypeError is raised
\* and nothing is returned.
C13_SelectsFirstHolder ==
    fpc = "done" =>
        IF \A k \in 1..Len(ref) : Holders(k) # {}
        THEN /\ fres.err = "none"
             /\ Range(fres.val) =
                  { reslist[i] : i \in { h \in 1..Len(reslist) :
                        \E k \in 1..Len(ref) :
                            h \in Holders(k) /\ \A g \in Holders(k) : h <= g } }
             /\ NoDuplicates(fres.val)
        ELSE fres.err = "TypeError" /\ fres.val = <<>>

\* a reference entry held by two different reslist entries: the first is returned
C13_Witness ==
    /\ fpc = "done"
    /\ Len(ref) = 1 /\ Len(reslist) = 2
    /\ Holders(1) = {1, 2}
    /\ reslist[1] # reslist[2]
    /\ fres.err = "none"
    /\ fres.val = <<reslist[1]>>

-----------------------------------------------------------------------------
(***************************************************************************)
(* Position list matcher: parse_poslist_file(fname, unique_residues)       *)
(***************************************************************************)

\* the number of characters of s from position i on that belong to set S
RECURSIVE RunLen(_, _, _)
RunLen(s, i, S) ==
    IF i > Len(s) THEN 0
    ELSE IF s[i] \in S THEN 1 + RunLen(s, i + 1, S)
    ELSE 0

\* matcher.fullmatch for '(([A-Z]?[A-Z][0-9]+)_?)+' from position i on: one
\* or two capitals, one or more digits, an optional underscore, repeated
RECURSIVE GroupsFrom(_, _)
GroupsFrom(s, i) ==
    LET nl == RunLen(s, i, Uppers)
        nd == RunLen(s, i + nl, Digits)
        j  == i + nl + nd
        k  == IF j <= Len(s) /\ s[j] = "_" THEN j + 1 ELSE j
    IN  /\ nl \in {1, 2}
        /\ nd >= 1
        /\ (k = Len(s) + 1 \/ GroupsFrom(s, k))

re_fullmatch(s) == GroupsFrom(s, 1)

\* re.sub("[^0-9]", "", x)
DigitsOf(x) == SelectSeq(x, LAMBDA c : c \in Digits)

\* the token check of lines 203-205: TRUE when the line is rejected
TokensRejected(residue) ==
    \/ Cardinality({ Len(residue[i]) : i \in 1..Len(residue) }) # 1
    \/ Cardinality(Range(residue)) # Len(residue)
    \/ Cardinality({ DigitsOf(residue[i]) : i \in 1..Len(residue) }) # 1

\* pdb_residues_list.count(True): the entries i with set(residue) <= set(i)
MatchCount(residue, ur) ==
    Cardinality({ i \in 1..Len(ur) : Range(residue) \subseteq Range(ur[i]) })

\* the match check of lines 209-215: TRUE when the line is rejected
MatchRejected(residue, ur) ==
    /\ residue \notin Range(ur)
    /\ MatchCount(residue, ur) # 1

\* tuple(sorted([s if str.isdigit(s[1]) else s[1:] for s in residue]))
Canonical(residue) ==
    SortedStrs([ i \in 1..Len(residue) |->
                    IF residue[i][2] \in Digits THEN residue[i]
                    ELSE StrFrom(residue[i], 2) ])

\* the lines the position files are made of
PosLines ==
    { JoinStr(<< <<"A", "1", "2">>, <<"B", "1", "2">> >>, "_"),
      JoinStr(<< <<"B", "1", "2">>, <<"A", "1", "2">> >>, "_"),
      JoinStr(<< <<"G", "A", "1", "2">>, <<"G", "B", "1", "2">> >>, "_"),
      <<"G", "A", "1", "2">>,
      <<"A", "1", "2">>,
      <<" ", "G", "B", "1", "2", " ">>,
      <<"C", "1", "2">>,
      <<"G", "C", "1", "2">>,
      JoinStr(<< <<"G", "A", "1", "2">>, <<"G", "A", "1", "2">> >>, "_"),
      JoinStr(<< <<"G", "A", "1", "2">>, <<"G", "B", "9">> >>, "_"),
      <<"S", "A", "9">>,
      JoinStr(<< <<"G", "A", "1", "2">>, <<"B", "1", "2">> >>, "_"),
      JoinStr(<< <<"G", "B", "1", "2">>, <<"G", "A", "1", "2">> >>, "_"),
      <<"1", "2">> }

\* the structure-derived residue lists the files are matched against
PosResUniverse ==
    { << <<"G", "A", "1", "2">>, <<"G", "B", "1", "2">> >>,
      << <<"G", "A", "1", "2">> >>,
      << <<"G", "B", "1", "2">> >>,
      << <<"S", "A", "9">>, <<"S", "B", "9">> >>,
      << <<"S", "A", "9">> >> }

PosOff ==
    /\ ppc = "off" /\ unique_residues = <<>> /\ posfile = <<>> /\ pline = 0
    /\ praised = "" /\ out = <<>> /\ pres = <<>>

PosInit ==
    /\ ppc = "call"
    /\ unique_residues \in SeqsUpTo(PosResUniverse, MaxUniqueLen)
    /\ posfile \in SeqsUpTo(PosLines, MaxPosLines)
    /\ pline = 0
    /\ praised = ""
    /\ out = <<>>
    /\ pres = <<>>

\* which check of the loop body rejects the line, "" when it is accepted
LineVerdict(line, ur) ==
    IF ~re_fullmatch(Strip(line)) THEN "grammar"
    ELSE IF TokensRejected(Split(Strip(line), "_")) THEN "tokens"
    ELSE IF MatchRejected(Split(Strip(line), "_"), ur) THEN "match"
    ELSE ""

\* one iteration of "for line in fh"
ParseLine ==
    /\ ppc = "call"
    /\ pline < Len(posfile)
    /\ LET line == posfile[pline + 1]
           verdict == LineVerdict(line, unique_residues)
       IN  IF verdict # ""
           THEN /\ ppc' = "TypeError"
                /\ praised' = verdict
                /\ UNCHANGED out
           ELSE /\ out' = Append(out, Canonical(Split(Strip(line), "_")))
                /\ UNCHANGED <<ppc, praised>>
    /\ pline' = pline + 1
    /\ UNCHANGED <<unique_residues, posfile, pres>>
    /\ UNCHANGED notPosVars

\* return list(set(out)): the distinct tuples, in the order the set yields them
ReturnPositions ==
    /\ ppc = "call"
    /\ pline = Len(posfile)
    /\ \E order \in { o \in SeqsUpTo(Range(out), Cardinality(Range(out))) :
                        Range(o) = Range(out) /\ Len(o) = Cardinality(Range(out)) } :
          pres' = order
    /\ ppc' = "done"
    /\ UNCHANGED <<unique_residues, posfile, pline, praised, out>>
    /\ UNCHANGED notPosVars

PosNext == ParseLine \/ ReturnPositions

HomomerGroup12 == << <<"G", "A", "1", "2">>, <<"G", "B", "1", "2">> >>

\* C4: with the homomer group of residue 12 on chains A and B in the residue
\* list, the line A12_B12 is accepted and returned as (A12, B12); a line whose
\* chain/number occurs in no group raises TypeError.
C4_AcceptsTypeOmittedLine ==
    /\ ( /\ ppc \in {"done", "TypeError"}
         /\ HomomerGroup12 \in Range(unique_residues)
         /\ posfile = << JoinStr(<< <<"A", "1", "2">>, <<"B", "1", "2">> >>, "_") >> )
       => (ppc = "done" /\ pres = << << <<"A", "1", "2">>, <<"B", "1", "2">> >> >>)
    /\ ( /\ ppc \in {"done", "TypeError"}
         /\ posfile = << <<"C", "1", "2">> >> )
       => ppc = "TypeError"

\* the tokens of the line the loop handled last
LastTokens == Split(Strip(posfile[pline]), "_")

\* the digits a token ends with, and the number they write
DigitSuffix(tok) ==
    LET n == CHOOSE k \in 0..Len(tok) :
                 /\ \A i \in (Len(tok) - k + 1)..Len(tok) : tok[i] \in Digits
                 /\ (k < Len(tok) => tok[Len(tok) - k] \notin Digits)
    IN  SubSeq(tok, Len(tok) - n + 1, Len(tok))

SameSuffixLength(toks) ==
    \A i, j \in 1..Len(toks) : Len(DigitSuffix(toks[i])) = Len(DigitSuffix(toks[j]))

SameNumericValue(toks) ==
    \A i, j \in 1..Len(toks) : NatOf(DigitSuffix(toks[i])) = NatOf(DigitSuffix(toks[j]))

PairwiseDistinct(toks) ==
    \A i, j \in 1..Len(toks) : i # j => toks[i] # toks[j]

\* C12: a line that passes the grammar check is rejected at the token check
\* if and only if its tokens do not all have the same digit-suffix length, or
\* not all the same numeric value, or are not pairwise distinct.
C12_TokenCheckIff ==
    (pline >= 1 /\ re_fullmatch(Strip(posfile[pline]))) =>
        ( (ppc = "TypeError" /\ praised = "tokens")
          <=> ~( /\ SameSuffixLength(LastTokens)
                 /\ SameNumericValue(LastTokens)
                 /\ PairwiseDistinct(LastTokens) ) )

\* a token without its residue-type letter: of two leading capitals the first
\* is the type
TypeFree(tok) ==
    IF Len(tok) >= 2 /\ tok[1] \in Uppers /\ tok[2] \in Uppers THEN Tail(tok) ELSE tok

\* the chain+number tokens a line names
PositionOf(line) ==
    LET toks == Split(Strip(line), "_")
    IN  { TypeFree(toks[i]) : i \in 1..Len(toks) }

\* two lines that differ at most in the order of their tokens and in the
\* presence of the type letter (a repeated line included)
SamePosition(l1, l2) ==
    /\ re_fullmatch(Strip(l1)) /\ re_fullmatch(Strip(l2))
    /\ Len(Split(Strip(l1), "_")) = Len(Split(Strip(l2), "_"))
    /\ PositionOf(l1) = PositionOf(l2)

\* chain id followed by the residue number, no residue-type letter
ChainAndNumber(tok) ==
    /\ Len(tok) >= 2
    /\ tok[1] \in Uppers
    /\ \A i \in 2..Len(tok) : tok[i] \in Digits

AscendingTokens(entry) ==
    \A i, j \in 1..Len(entry) : i < j => ~StrLess(entry[j], entry[i])

\* C14: the returned list has no duplicates, every entry is a tuple of
\* chain+number tokens in ascending order, and two lines that differ only in
\* the order of their tokens, in the presence of the type letter, or not at
\* all, give a single entry of the returned list.
C14_CanonicalOutput ==
    /\ ppc = "done" =>
          /\ \A i, j \in 1..Len(pres) : pres[i] = pres[j] => i = j
          /\ \A i \in 1..Len(pres) :
                /\ AscendingTokens(pres[i])
                /\ \A j \in 1..Len(pres[i]) : ChainAndNumber(pres[i][j])
    /\ ( /\ ppc \in {"done", "TypeError"}
         /\ Len(posfile) = 2
         /\ LineVerdict(posfile[1], unique_residues) = ""
         /\ SamePosition(posfile[1], posfile[2]) )
       => (ppc = "done" /\ Len(pres) = 1)

-----------------------------------------------------------------------------
(***************************************************************************)
(* Residue identifier builders: get_residue_list and get_foldx_sequence    *)
(***************************************************************************)

\* PDB.Polypeptide.three_to_one: the one-letter code, "" when it raises
three_to_one(resname) ==
    IF resname = "GLY" THEN "G"
    ELSE IF resname = "SER" THEN "S"
    ELSE ""

\* the chains the structures are made of: residues as [resname, resid]
ChainUniverse ==
    { << [resname |-> "GLY", resid |-> 9], [resname |-> "SER", resid |-> 12] >>,
      << [resname |-> "GLY", resid |-> 9], [resname |-> "HOH", resid |-> 10],
         [resname |-> "SER", resid |-> 12] >>,
      << [resname |-> "GLY", resid |-> 9], [resname |-> "SER", resid |-> 13] >>,
      << [resname |-> "SER", resid |-> 9] >> }

ChainIds == { "A", "B" }

\* a model: its chains in file order, with distinct chain ids
ModelUniverse ==
    { m \in UNION { [1..k -> [id : ChainIds, residues : ChainUniverse]] : k \in 1..Cardinality(ChainIds) } :
        \A i, j \in 1..Len(m) : m[i].id = m[j].id => i = j }

ResOff == rpc = "off" /\ structure = <<>> /\ multimers = FALSE /\ rres = <<>>

ResInit ==
    /\ rpc = "call"
    /\ structure \in SeqsUpTo(ModelUniverse, MaxModels)
    /\ multimers \in BOOLEAN
    /\ rres = <<>>

\* "%s%s%d" % (res_code, chain id, residue.get_id()[1])
ResidueToken(code, chain, resid) == <<code, chain>> \o IntToStr(resid)

\* the residues of a chain three_to_one recognizes, the others are skipped
Recognized(residues) == SelectSeq(residues, LAMBDA r : three_to_one(r.resname) # "")

\* the one-letter sequence accumulated for a chain
OneLetterSeq(residues) ==
    [ i \in 1..Len(Recognized(residues)) |-> three_to_one(Recognized(residues)[i].resname) ]

\* the non-multimer identifiers of one model, chain by chain
RECURSIVE FlatTokens(_)
FlatTokens(model) ==
    IF model = <<>> THEN <<>>
    ELSE [ i \in 1..Len(Recognized(model[1].residues)) |->
              ResidueToken(three_to_one(Recognized(model[1].residues)[i].resname),
                           model[1].id,
                           Recognized(model[1].residues)[i].resid) ]
         \o FlatTokens(Tail(model))

\* the sequences dict after the chains of one model were read: an ordered
\* list of [id, seq]; a chain id already present keeps its place
RECURSIVE ReadSequences(_, _)
ReadSequences(dict, model) ==
    IF model = <<>> THEN dict
    ELSE LET entry == [id |-> model[1].id, seq |-> OneLetterSeq(model[1].residues)]
             at == { i \in 1..Len(dict) : dict[i].id = model[1].id }
         IN  ReadSequences(
                 IF at = {} THEN Append(dict, entry)
                 ELSE [ i \in 1..Len(dict) |-> IF i \in at THEN entry ELSE dict[i] ],
                 Tail(model))

RECURSIVE ReadAllSequences(_, _)
ReadAllSequences(dict, models) ==
    IF models = <<>> THEN dict
    ELSE ReadAllSequences(ReadSequences(dict, models[1]), Tail(models))

\* np.unique(seqs): the distinct sequences in ascending order
UniqueSeqs(dict) == SortedStrs(
    CHOOSE s \in SeqsUpTo({ dict[i].seq : i \in 1..Len(dict) }, Len(dict)) :
        /\ Len(s) = Cardinality({ dict[i].seq : i \in 1..Len(dict) })
        /\ Range(s) = { dict[i].seq : i \in 1..Len(dict) })

\* collated_chains: per distinct sequence, the chain ids that have it
CollatedChains(dict) ==
    [ g \in 1..Len(UniqueSeqs(dict)) |->
        LET ids == [ i \in 1..Len(dict) |-> dict[i].id ]
            has == [ i \in 1..Len(dict) |-> dict[i].seq = UniqueSeqs(dict)[g] ]
            idx == SelectSeq([ i \in 1..Len(dict) |-> i ], LAMBDA i : has[i])
        IN  [ k \in 1..Len(idx) |-> ids[idx[k]] ] ]

\* sorted(tokens, key=lambda x: x[1]): stable, by chain id
RECURSIVE InsertByChain(_, _)
InsertByChain(sorted, x) ==
    IF sorted = <<>> THEN <<x>>
    ELSE IF Ord(x[2]) < Ord(sorted[1][2]) THEN <<x>> \o sorted
    ELSE <<sorted[1]>> \o InsertByChain(Tail(sorted), x)

RECURSIVE SortedByChain(_)
SortedByChain(s) ==
    IF s = <<>> THEN <<>>
    ELSE InsertByChain(SortedByChain(SubSeq(s, 1, Len(s) - 1)), s[Len(s)])

\* this_res for one residue of the template chain
ThisRes(code, cg, resid) ==
    SortedByChain([ k \in 1..Len(cg) |-> ResidueToken(code, cg[k], resid) ])

\* model[cg[0]]: the residues of the chain, or the KeyError
HasChain(model, id) == \E i \in 1..Len(model) : model[i].id = id
ChainOfModel(model, id) == model[CHOOSE i \in 1..Len(model) : model[i].id = id].residues

\* "for model in structure: for residue in model[cg[0]]" for one chain group
RECURSIVE GroupResidues(_, _)
GroupResidues(models, cg) ==
    IF models = <<>> THEN [err |-> "none", val |-> <<>>]
    ELSE IF ~HasChain(models[1], cg[1]) THEN [err |-> "KeyError", val |-> <<>>]
    ELSE LET rs == Recognized(ChainOfModel(models[1], cg[1]))
             here == [ i \in 1..Len(rs) |->
                         ThisRes(three_to_one(rs[i].resname), cg, rs[i].resid) ]
             rest == GroupResidues(Tail(models), cg)
         IN  IF rest.err # "none" THEN rest
             ELSE [err |-> "none", val |-> here \o rest.val]

\* "for cg in collated_chains"
RECURSIVE AllGroups(_, _)
AllGroups(models, groups) ==
    IF groups = <<>> THEN [err |-> "none", val |-> <<>>]
    ELSE LET first == GroupResidues(models, groups[1])
             rest == AllGroups(models, Tail(groups))
         IN  IF first.err # "none" THEN first
             ELSE IF rest.err # "none" THEN rest
             ELSE [err |-> "none", val |-> first.val \o rest.val]

\* get_residue_list(infile, multimers): model = models[0] for the first loop,
\* "for model in structure" for the groups; the non-multimer identifiers are
\* the formatted strings themselves
get_residue_list(st, multi) ==
    IF Len(st) < 1 THEN [err |-> "IOError", val |-> <<>>]
    ELSE IF ~multi THEN [err |-> "none", val |-> FlatTokens(st[1])]
    ELSE AllGroups(st, CollatedChains(ReadSequences(<<>>, st[1])))

\* the non-multimer identifiers of get_foldx_sequence: tuple([token]), for
\* every model of the structure
RECURSIVE FlatTuples(_)
FlatTuples(models) ==
    IF models = <<>> THEN <<>>
    ELSE [ i \in 1..Len(FlatTokens(models[1])) |-> <<FlatTokens(models[1])[i]>> ]
         \o FlatTuples(Tail(models))

\* get_foldx_sequence(pdb, multimers): every loop runs over all the models;
\* zip(*[]) cannot be unpacked when there is no chain at all
get_foldx_sequence(st, multi) ==
    IF ~multi THEN [err |-> "none", val |-> FlatTuples(st)]
    ELSE IF ReadAllSequences(<<>>, st) = <<>> THEN [err |-> "ValueError", val |-> <<>>]
    ELSE AllGroups(st, CollatedChains(ReadAllSequences(<<>>, st)))

GetResidueList ==
    /\ rpc = "call"
    /\ rres' = get_residue_list(structure, multimers)
    /\ rpc' = "get_residue_list"
    /\ UNCHANGED <<structure, multimers>>
    /\ UNCHANGED notResVars

GetFoldxSequence ==
    /\ rpc = "call"
    /\ rres' = get_foldx_sequence(structure, multimers)
    /\ rpc' = "get_foldx_sequence"
    /\ UNCHANGED <<structure, multimers>>
    /\ UNCHANGED notResVars

ResNext == GetResidueList \/ GetFoldxSequence

\* the structure has one model and all its chains have the same sequence
SingleModelHomomer ==
    /\ Len(structure) = 1
    /\ \A i, j \in 1..Len(structure[1]) :
          OneLetterSeq(structure[1][i].residues) = OneLetterSeq(structure[1][j].residues)

\* one N-tuple per recognized residue of the template chain: one element per
\* chain, in chain id order, all with the residue's code and number
HomomerGroups(val, model) ==
    LET template == Recognized(model[1].residues)
    IN  /\ Len(val) = Len(template)
        /\ \A k \in 1..Len(val) :
              /\ Len(val[k]) = Len(model)
              /\ { val[k][i][2] : i \in 1..Len(val[k]) } = { model[i].id : i \in 1..Len(model) }
              /\ \A i, j \in 1..Len(val[k]) : i < j => Ord(val[k][i][2]) < Ord(val[k][j][2])
              /\ \A i \in 1..Len(val[k]) :
                    /\ val[k][i][1] = three_to_one(template[k].resname)
                    /\ StrFrom(val[k][i], 3) = IntToStr(template[k].resid)

\* one 1-tuple per recognized residue, in traversal order
SingletonTuples(val, model) ==
    /\ Len(val) = Len(FlatTokens(model))
    /\ \A k \in 1..Len(val) :
          /\ Len(val[k]) = 1
          /\ val[k][1] = FlatTokens(model)[k]

\* C7: for a single-model structure whose N chains have the same sequence,
\* both builders emit N-tuples per template residue in multimer mode and
\* 1-tuples per recognized residue, in traversal order, otherwise.
C7_GroupSizes ==
    (rpc \in {"get_residue_list", "get_foldx_sequence"} /\ SingleModelHomomer) =>
        /\ rres.err = "none"
        /\ IF multimers THEN HomomerGroups(rres.val, structure[1])
           ELSE SingletonTuples(rres.val, structure[1])

\* C8: with more than one model, get_residue_list returns what it returns
\* for the structure reduced to its first model, and raises nothing.
C8_FirstModelOnly ==
    (rpc = "get_residue_list" /\ Len(structure) > 1) =>
        /\ rres.err = "none"
        /\ rres = get_residue_list(<<structure[1]>>, multimers)

-----------------------------------------------------------------------------
(***************************************************************************)
(* Mutation list parser: parse_mutlist_file(fname)                         *)
(***************************************************************************)

\* PDB.Polypeptide.d1_to_index.keys(): the twenty one-letter codes
AminoAcids ==
    { "A", "C", "D", "E", "F", "G", "H", "I", "K", "L",
      "M", "N", "P", "Q", "R", "S", "T", "V", "W", "Y" }

\* the lines the mutation list files are made of (without the line end)
MutLines ==
    { <<"A">>, <<"C">>, <<"a">>, <<"X">>, <<"#", "A">>, <<>>, <<" ">>,
      <<"A", "C">>, <<" ", "C">>, <<" ", "#", "A">> }

MutOff == mpc = "off" /\ mutfile = <<>> /\ mline = 0 /\ restypes = <<>>

MutInit ==
    /\ mpc = "call"
    /\ mutfile \in SeqsUpTo(MutLines, MaxMutLines)
    /\ mline = 0
    /\ restypes = <<>>

\* line.startswith("#")
StartsWithHash(line) == line # <<>> /\ line[1] = "#"

\* mtype = line.strip()[0]
MType(line) == Strip(line)[1]

\* faulty variant: the code looked up after case folding
MutKnownType(c) ==
    c \in AminoAcids \cup { "a", "c", "d", "e", "f", "g", "h", "i", "k", "l",
                            "m", "n", "p", "q", "r", "s", "t", "v", "w", "y" }

\* mtype in PDB.Polypeptide.d1_to_index.keys()
KnownType(c) == c \in AminoAcids

\* one iteration of "for line in fh"
MutLine ==
    /\ mpc = "call"
    /\ mline < Len(mutfile)
    /\ LET line == mutfile[mline + 1]
       IN  IF StartsWithHash(line) \/ Len(Strip(line)) = 0
           THEN UNCHANGED <<mpc, restypes>>
           ELSE IF ~KnownType(MType(line))
           THEN mpc' = "TypeError" /\ UNCHANGED restypes
           ELSE restypes' = Append(restypes, MType(line)) /\ UNCHANGED mpc
    /\ mline' = mline + 1
    /\ UNCHANGED mutfile
    /\ UNCHANGED notMutVars

\* after the loop: the duplicate check, the empty-list log, return restypes
MutFinish ==
    /\ mpc = "call"
    /\ mline = Len(mutfile)
    /\ mpc' = IF Cardinality(Range(restypes)) # Len(restypes) THEN "TypeError" ELSE "done"
    /\ UNCHANGED <<mutfile, mline, restypes>>
    /\ UNCHANGED notMutVars

MutNext == MutLine \/ MutFinish

\* the first characters of the non-blank lines that do not start with "#"
FirstChars(file) ==
    LET kept == SelectSeq(file, LAMBDA l : ~StartsWithHash(l) /\ Strip(l) # <<>>)
    IN  [ i \in 1..Len(kept) |-> Strip(kept[i])[1] ]

\* C9: parse_mutlist_file returns, in file order, the first character of every
\* non-empty non-comment line, duplicate-free and within the amino-acid
\* alphabet; it raises TypeError exactly when such a character is outside the
\* alphabet (lowercase included) or occurs twice; an empty result is returned.
C9_MutlistCodes ==
    LET codes == FirstChars(mutfile)
        bad == \/ \E i \in 1..Len(codes) : codes[i] \notin AminoAcids
               \/ \E i, j \in 1..Len(codes) : i # j /\ codes[i] = codes[j]
    IN  /\ mpc = "TypeError" => bad
        /\ mpc = "done" =>
              /\ ~bad
              /\ restypes = codes
              /\ \A i, j \in 1..Len(restypes) : restypes[i] = restypes[j] => i = j
              /\ \A i \in 1..Len(restypes) : restypes[i] \in AminoAcids

\* a file with a comment, a blank line and two codes, one of them indented and
\* one followed by more characters, parsed to the two codes in file order
C9_Witness ==
    /\ mpc = "done"
    /\ restypes = <<"C", "A">>
    /\ \E i \in 1..Len(mutfile) : mutfile[i] = <<" ", "C">>
    /\ \E i \in 1..Len(mutfile) : mutfile[i] = <<"A", "C">>

-----------------------------------------------------------------------------
(***************************************************************************)
(* Energy files: save_energy_file(fname, data, ...) and                    *)
(* parse_ddg_file(fname, reslist=None, full)                               *)
(*                                                                         *)
(* Numbers are exact rationals [num, den]; the text of the file is made of *)
(* the characters "%.5f" writes, and is parsed back character by character.*)
(***************************************************************************)

\* the digits of fmt="%.5f"
Precision == 5

RECURSIVE Pow10(_)
Pow10(k) == IF k = 0 THEN 1 ELSE 10 * Pow10(k - 1)

\* the values the data matrices hold
DataValues == { 1, 2 }

\* data with the trials along the given axis: r rows of c numbers
Matrices(r, c) == [1..r -> [1..c -> DataValues]]

EnergyOff ==
    /\ epc = "off" /\ data = <<>> /\ axis = 0 /\ do_min = FALSE /\ do_max = FALSE
    /\ efile = <<>> /\ full = FALSE /\ eres = <<>>

EnergyInit ==
    /\ epc = "call"
    /\ axis \in {0, 1}
    /\ \E t \in 1..MaxTrials : \E e \in 1..MaxEntries :
          data \in IF axis = 0 THEN Matrices(t, e) ELSE Matrices(e, t)
    /\ do_min \in BOOLEAN
    /\ do_max \in BOOLEAN
    /\ efile = <<>>
    /\ full = FALSE
    /\ eres = <<>>

\* the numbers a statistic along the axis runs over, one list per kept index
Lanes(d, ax) ==
    IF ax = 1 THEN d
    ELSE [ j \in 1..Len(d[1]) |-> [ i \in 1..Len(d) |-> d[i][j] ] ]

RECURSIVE SumOf(_)
SumOf(s) == IF s = <<>> THEN 0 ELSE s[1] + SumOf(Tail(s))

\* np.average, np.min, np.max along the axis, as rationals
Average(lane) == [num |-> SumOf(lane), den |-> Len(lane)]
Minimum(lane) == [num |-> CHOOSE x \in Range(lane) : \A y \in Range(lane) : x <= y, den |-> 1]
Maximum(lane) == [num |-> CHOOSE x \in Range(lane) : \A y \in Range(lane) : x >= y, den |-> 1]

\* "%.5f" % x: x rounded to five decimals, written as sign, integer part,
\* point and five digits
PadLeft(s, n) == [ i \in 1..(n - Len(s)) |-> "0" ] \o s

FormatFixed(x) ==
    LET scaled == (2 * x.num * Pow10(Precision) + x.den) \div (2 * x.den)
        mag == IF scaled < 0 THEN 0 - scaled ELSE scaled
    IN  (IF scaled < 0 THEN <<"-">> ELSE <<>>)
        \o NatToStr(mag \div Pow10(Precision))
        \o <<".">>
        \o PadLeft(NatToStr(mag % Pow10(Precision)), Precision)

\* float(text): the number a decimal string denotes
ParseFloat(text) ==
    LET neg == text[1] = "-"
        body == IF neg THEN Tail(text) ELSE text
        dot == CHOOSE i \in 1..Len(body) : body[i] = "."
        whole == SubSeq(body, 1, dot - 1)
        frac == SubSeq(body, dot + 1, Len(body))
        n == NatOf(whole) * Pow10(Len(frac)) + NatOf(frac)
    IN  [num |-> IF neg THEN 0 - n ELSE n, den |-> Pow10(Len(frac))]

\* out = np.array(out).T: one row per kept index, one column per statistic
\* selected, in the order avg, min, max; np.savetxt writes each with fmt
SavedRows(d, ax, dmin, dmax) ==
    [ i \in 1..Len(Lanes(d, ax)) |->
        <<FormatFixed(Average(Lanes(d, ax)[i]))>>
        \o (IF dmin THEN <<FormatFixed(Minimum(Lanes(d, ax)[i]))>> ELSE <<>>)
        \o (IF dmax THEN <<FormatFixed(Maximum(Lanes(d, ax)[i]))>> ELSE <<>>) ]

SaveEnergyFile ==
    /\ epc = "call"
    /\ efile' = SavedRows(data, axis, do_min, do_max)
    /\ epc' = "saved"
    /\ UNCHANGED <<data, axis, do_min, do_max, full, eres>>
    /\ UNCHANGED notEnergyVars

\* np.loadtxt(fname, comments='#'): the rows parsed, axes of length one
\* squeezed away; an array is [shape, at], at a function of the index tuple
LoadTxt(rows) ==
    LET nr == Len(rows)
        nc == Len(rows[1])
        v(i, j) == ParseFloat(rows[i][j])
    IN  IF nr = 1 /\ nc = 1 THEN [shape |-> <<>>, at |-> [ix \in {<<>>} |-> v(1, 1)]]
        ELSE IF nc = 1 THEN [shape |-> <<nr>>, at |-> [ix \in {<<i>> : i \in 1..nr} |-> v(ix[1], 1)]]
        ELSE IF nr = 1 THEN [shape |-> <<nc>>, at |-> [ix \in {<<j>> : j \in 1..nc} |-> v(1, ix[1])]]
        ELSE [shape |-> <<nr, nc>>,
              at |-> [ix \in {<<i, j>> : i \in 1..nr, j \in 1..nc} |-> v(ix[1], ix[2])]]

\* .T: the axes reversed
Transposed(a) ==
    IF Len(a.shape) < 2 THEN a
    ELSE [shape |-> <<a.shape[2], a.shape[1]>>,
          at |-> [ix \in {<<j, i>> : j \in 1..a.shape[2], i \in 1..a.shape[1]} |->
                    a.at[<<ix[2], ix[1]>>]]]

\* if len(ddgs.shape) == 1: ddgs = np.expand_dims(ddgs, 1)
Expanded(a) ==
    IF Len(a.shape) # 1 THEN a
    ELSE [shape |-> <<a.shape[1], 1>>,
          at |-> [ix \in {<<i, 1>> : i \in 1..a.shape[1]} |-> a.at[<<ix[1]>>]]]

\* parse_ddg_file with reslist=None: ddgs when full, ddgs[0] otherwise;
\* indexing a zero-dimensional array raises IndexError
parse_ddg_file(rows, fl) ==
    LET ddgs == Expanded(Transposed(LoadTxt(rows)))
    IN  IF fl THEN [err |-> "none", val |-> ddgs]
        ELSE IF Len(ddgs.shape) = 0 THEN [err |-> "IndexError", val |-> <<>>]
        ELSE [err |-> "none",
              val |-> [ j \in 1..ddgs.shape[2] |-> ddgs.at[<<1, j>>] ]]

ParseDdgFile(fl) ==
    /\ epc = "saved"
    /\ full' = fl
    /\ eres' = parse_ddg_file(efile, fl)
    /\ epc' = "parsed"
    /\ UNCHANGED <<data, axis, do_min, do_max, efile>>
    /\ UNCHANGED notEnergyVars

EnergyNext == SaveEnergyFile \/ \E fl \in BOOLEAN : ParseDdgFile(fl)

\* two rationals denote the same number
SameNumber(x, y) == x.num * y.den = y.num * x.den

\* C10: a matrix written with only the average selected and read back with
\* full=False gives one value per entry, equal to the entry's average over
\* the trials, in the same order.
C10_RoundTrip ==
    (epc = "parsed" /\ ~do_min /\ ~do_max /\ ~full) =>
        /\ eres.err = "none"
        /\ Len(eres.val) = Len(Lanes(data, axis))
        /\ \A i \in 1..Len(eres.val) :
              SameNumber(eres.val[i], Average(Lanes(data, axis)[i]))

-----------------------------------------------------------------------------
(***************************************************************************)
(* Parallel dispatcher: parallel_foldx_run(foldx_runs, np)                 *)
(***************************************************************************)

Runs == 1..nruns
Workers == 1..np

\* run.name: the runs are told apart by their names
RunName(r) == r

PoolOff ==
    /\ pc = "off" /\ nruns = 0 /\ np = 1 /\ hangs = <<>>
    /\ taskq = <<>> /\ worker = <<0>> /\ startlog = <<>> /\ outq = <<>> /\ ret = <<>>

PoolInit ==
    /\ pc = "call"
    /\ nruns \in 0..MaxRuns
    /\ np \in 1..MaxNp
    /\ hangs \in [1..nruns -> BOOLEAN]
    /\ taskq = <<>>
    /\ worker = [w \in 1..np |-> 0]
    /\ startlog = <<>>
    /\ outq = <<>>
    /\ ret = <<>>

\* pool = ThreadPool(np); result = pool.imap_unordered(foldx_worker, foldx_runs)
Submit ==
    /\ pc = "call"
    /\ taskq' = [i \in 1..nruns |-> i]
    /\ pc' = "submitted"
    /\ UNCHANGED <<nruns, np, hangs, worker, startlog, outq, ret>>
    /\ UNCHANGED notPoolVars

\* pool.close()
Close ==
    /\ pc = "submitted"
    /\ pc' = "closed"
    /\ UNCHANGED <<nruns, np, hangs, taskq, worker, startlog, outq, ret>>
    /\ UNCHANGED notPoolVars

\* faulty variant: a pool thread that takes a task while it still runs one
MutWorkerMayStart(w) == TRUE

\* a pool thread takes the next task and enters foldx_worker(run): run.run() starts
WorkerMayStart(w) == worker[w] = 0

WorkerStart(w) ==
    /\ pc \in {"submitted", "closed"}
    /\ WorkerMayStart(w)
    /\ taskq # <<>>
    /\ worker' = [worker EXCEPT ![w] = Head(taskq)]
    /\ taskq' = Tail(taskq)
    /\ startlog' = Append(startlog, RunName(Head(taskq)))
    /\ UNCHANGED <<pc, nruns, np, hangs, outq, ret>>
    /\ UNCHANGED notPoolVars

\* faulty variant: the pair of the first run is dropped
MutWorkerResult(r, ok) == IF r = 1 THEN <<>> ELSE <<<<RunName(r), ok>>>>

\* run.run() returns ok; foldx_worker returns (run.name, ok) to the iterator
WorkerResult(r, ok) == <<<<RunName(r), ok>>>>

WorkerFinish(w, ok) ==
    /\ pc \in {"submitted", "closed"}
    /\ worker[w] # 0
    /\ ~hangs[worker[w]]
    /\ outq' = outq \o WorkerResult(worker[w], ok)
    /\ worker' = [worker EXCEPT ![w] = 0]
    /\ UNCHANGED <<pc, nruns, np, hangs, taskq, startlog, ret>>
    /\ UNCHANGED notPoolVars

\* faulty variant: join returns once the queue is empty, runs still executing
MutJoinReady == taskq = <<>>

\* pool.join() returns once every task is done and the pool threads have exited
JoinReady == taskq = <<>> /\ \A w \in Workers : worker[w] = 0

Join ==
    /\ pc = "closed"
    /\ JoinReady
    /\ pc' = "joined"
    /\ UNCHANGED <<nruns, np, hangs, taskq, worker, startlog, outq, ret>>
    /\ UNCHANGED notPoolVars

\* return list(result)
Return ==
    /\ pc = "joined"
    /\ ret' = outq
    /\ pc' = "returned"
    /\ UNCHANGED <<nruns, np, hangs, taskq, worker, startlog, outq>>
    /\ UNCHANGED notPoolVars

PoolNext ==
    \/ Submit
    \/ Close
    \/ \E w \in Workers : WorkerStart(w)
    \/ \E w \in Workers : \E ok \in BOOLEAN : WorkerFinish(w, ok)
    \/ Join
    \/ Return

\* the runs whose run() has started (logged) and has not yet returned a pair
Running ==
    { r \in Runs : /\ \E i \in 1..Len(startlog) : startlog[i] = RunName(r)
                   /\ \A i \in 1..Len(outq) : outq[i][1] # RunName(r) }

\* C1: parallel_foldx_run returns exactly one (name, success) pair per
\* submitted run: as many pairs as runs, every run name exactly once,
\* whatever the completion order.
C1_OnePairPerRun ==
    pc = "returned" =>
        /\ Len(ret) = nruns
        /\ \A r \in Runs :
              Cardinality({ i \in 1..Len(ret) : ret[i][1] = RunName(r) }) = 1
        /\ \A i \in 1..Len(ret) : ret[i][2] \in BOOLEAN

\* a return where the runs completed out of submission order
C1_Witness ==
    /\ pc = "returned"
    /\ nruns = MaxRuns
    /\ ret[1][1] = RunName(2)
    /\ ret[2][1] = RunName(1)

\* C2: at any time at most np runs have started and not yet returned.
C2_AtMostNpRunning == Cardinality(Running) <= np

\* np runs executing while another run waits in the queue
C2_Witness ==
    /\ Cardinality(Running) = np
    /\ taskq # <<>>

\* C3: if no run hangs the call eventually returns; on return nothing is
\* still executing; if some run never returns the call never returns.
C3_ReturnsIffAllRunsReturn ==
    /\ ((\A r \in Runs : ~hangs[r]) => <>(pc = "returned"))
    /\ [](pc = "returned" => Running = {})
    /\ ((\E r \in Runs : hangs[r]) => [](pc # "returned"))

\* a call blocked in join on a hung run, after another run has completed
C3_Witness ==
    /\ pc = "closed"
    /\ \E r \in Running : hangs[r]
    /\ outq # <<>>

-----------------------------------------------------------------------------
(***************************************************************************)
(* Termination signals: termination_handler(signalnum, handler)            *)
(*                                                                         *)
(* The handler runs in the main thread, on top of whatever the main thread *)
(* was executing.  sys.exit(-1) raises SystemExit in the handler; the      *)
(* exception leaves the handler and travels up through the interrupted     *)
(* code.  The interrupted code modelled is the residue loop of             *)
(* get_residue_list: its try block around three_to_one has a bare except   *)
(* clause, which logs a warning and continues with the next residue.       *)
(***************************************************************************)

\* sys.exit(-1): the status the process ends with, as the OS reports it
ExitStatus == (0 - 1) % 256

SigOff ==
    /\ spc = "off" /\ nres = 0 /\ ires = 0 /\ iat = "" /\ skipped = {}
    /\ hstack = <<>> /\ delivered = 0 /\ hevents = <<>>
    /\ logging_open = FALSE /\ exit_status = 0 - 1

\* the main thread enters the loop "for residue in chain", handlers installed
SigInit ==
    /\ spc = "run"
    /\ nres \in 1..MaxChainLen
    /\ ires = 1
    /\ iat = "try"
    /\ skipped = {}
    /\ hstack = <<>>
    /\ delivered = 0
    /\ hevents = <<>>
    /\ logging_open = TRUE
    /\ exit_status = 0 - 1

\* the loop goes to its next residue, or ends after the last one
NextResidue ==
    IF ires < nres
    THEN /\ ires' = ires + 1
         /\ iat' = "try"
         /\ spc' = spc
    ELSE /\ spc' = "finished"
         /\ UNCHANGED <<ires, iat>>

\* the main thread executes the loop body; it runs only while no handler does
LoopStep ==
    /\ spc = "run"
    /\ hstack = <<>>
    /\ IF iat = "try"
       THEN /\ iat' = "append"
            /\ UNCHANGED <<spc, ires>>
       ELSE NextResidue
    /\ UNCHANGED <<nres, skipped, hstack, delivered, hevents, logging_open, exit_status>>
    /\ UNCHANGED notSigVars

\* SIGTERM or SIGINT is delivered: the interpreter calls termination_handler,
\* also while an earlier call of it is still running
Deliver ==
    /\ spc = "run"
    /\ delivered < MaxSignals
    /\ delivered' = delivered + 1
    /\ hstack' = Append(hstack, [id |-> delivered + 1, at |-> "log"])
    /\ UNCHANGED <<spc, nres, ires, iat, skipped, hevents, logging_open, exit_status>>
    /\ UNCHANGED notSigVars

TopFrame == hstack[Len(hstack)]

SetTop(at) == [hstack EXCEPT ![Len(hstack)].at = at]

\* log.info("Received termination signal - mutatex will be stopped")
HandlerLog ==
    /\ spc = "run"
    /\ hstack # <<>>
    /\ TopFrame.at = "log"
    /\ hevents' = Append(hevents, <<"log", TopFrame.id>>)
    /\ hstack' = SetTop("shutdown")
    /\ UNCHANGED <<spc, nres, ires, iat, skipped, delivered, logging_open, exit_status>>
    /\ UNCHANGED notSigVars

\* log.shutdown()
HandlerShutdown ==
    /\ spc = "run"
    /\ hstack # <<>>
    /\ TopFrame.at = "shutdown"
    /\ hevents' = Append(hevents, <<"shutdown", TopFrame.id>>)
    /\ logging_open' = FALSE
    /\ hstack' = SetTop("exit")
    /\ UNCHANGED <<spc, nres, ires, iat, skipped, delivered, exit_status>>
    /\ UNCHANGED notSigVars

\* sys.exit(-1): SystemExit leaves every handler call in progress and reaches
\* the interrupted loop.  Inside the try block the bare except clause catches
\* it (log.warning, continue); anywhere else it ends the process.
HandlerExit ==
    /\ spc = "run"
    /\ hstack # <<>>
    /\ TopFrame.at = "exit"
    /\ hevents' = Append(hevents, <<"exit", TopFrame.id>>)
    /\ hstack' = <<>>
    /\ IF iat = "try"
       THEN /\ skipped' = skipped \cup {ires}
            /\ NextResidue
            /\ UNCHANGED exit_status
       ELSE /\ spc' = "exited"
            /\ exit_status' = ExitStatus
            /\ UNCHANGED <<ires, iat, skipped>>
    /\ UNCHANGED <<nres, delivered, logging_open>>
    /\ UNCHANGED notSigVars

SigNext == LoopStep \/ Deliver \/ HandlerLog \/ HandlerShutdown \/ HandlerExit

\* the steps handler call d has performed, in the order it performed them
StepsOf(d) ==
    LET mine == SelectSeq(hevents, LAMBDA e : e[2] = d)
    IN  [ i \in 1..Len(mine) |-> mine[i][1] ]

HandlerSteps == << "log", "shutdown", "exit" >>

\* C11: every delivery makes termination_handler log, then shut logging down,
\* then exit, in this order and nothing else; the exit never comes before the
\* shutdown; once the handler has exited the process is terminated with a
\* non-zero status and the interrupted code does not run again.
C11_LogShutdownExit ==
    \A d \in 1..delivered :
        /\ StepsOf(d) = SubSeq(HandlerSteps, 1, Len(StepsOf(d)))
        /\ ("exit" \in Range(StepsOf(d))) =>
              (spc = "exited" /\ exit_status > 0)

-----------------------------------------------------------------------------
(***************************************************************************)
(* The matcher followed by the filter:                                     *)
(* filter_reslist(R, parse_poslist_file(fname, R))                         *)
(***************************************************************************)

\* residue lists in the format type letter, chain id, residue number; chain
\* ids are single characters, here A, B and 1
ComposeResUniverse ==
    PosResUniverse
    \cup { << ResToken("G", "1", <<"1", "2">>) >>,
           << ResToken("S", "A", <<"9">>), ResToken("S", "1", <<"9">>) >> }

\* position lines written with the type letter, and two lines naming no residue
ComposeLines ==
    { JoinStr(<< <<"G", "A", "1", "2">>, <<"G", "B", "1", "2">> >>, "_"),
      JoinStr(<< <<"G", "B", "1", "2">>, <<"G", "A", "1", "2">> >>, "_"),
      <<"G", "A", "1", "2">>,
      <<" ", "G", "B", "1", "2", " ">>,
      <<"S", "A", "9">>,
      <<"S", "B", "9">>,
      <<"G", "1", "1", "2">>,
      JoinStr(<< <<"S", "A", "9">>, <<"S", "1", "9">> >>, "_"),
      <<"A", "1", "2">>,
      <<"G", "C", "1", "2">> }

\* parse_poslist_file is about to read the file; filter_reslist waits for its result
ComposeInit ==
    /\ ppc = "call"
    /\ unique_residues \in SeqsUpTo(ComposeResUniverse, MaxUniqueLen)
    /\ posfile \in SeqsUpTo(ComposeLines, MaxPosLines)
    /\ pline = 0
    /\ praised = ""
    /\ out = <<>>
    /\ pres = <<>>
    /\ fpc = "wait"
    /\ reslist = <<>>
    /\ ref = <<>>
    /\ fres = <<>>

\* filter_reslist(R, ref) called with the list parse_poslist_file returned
FilterPositions ==
    /\ ppc = "done"
    /\ fpc = "wait"
    /\ reslist' = unique_residues
    /\ ref' = pres
    /\ fres' = filter_reslist(unique_residues, pres)
    /\ fpc' = "done"
    /\ UNCHANGED <<posVars, poolVars, resVars, mutVars, energyVars, sigVars>>

ComposeNext == ParseLine \/ ReturnPositions \/ FilterPositions

\* C15: for a residue list R in the format type letter, chain id, residue
\* number and a position file parse_poslist_file accepts against R,
\* filter_reslist(R, returned positions) does not raise the not-found error, and
\* every entry it returns is an entry of R that holds, type letters aside, the
\* tokens of a returned position.
C15_AcceptedPositionsAreFound ==
    (ppc = "done" /\ fpc = "done") =>
        /\ fres.err = "none"
        /\ \A e \in 1..Len(fres.val) :
              /\ fres.val[e] \in Range(unique_residues)
              /\ \E k \in 1..Len(pres) :
                    Range(pres[k]) \subseteq
                        { Tail(fres.val[e][j]) : j \in 1..Len(fres.val[e]) }

-----------------------------------------------------------------------------
(***************************************************************************)
(* Specifications: one per component, the other components at rest         *)
(***************************************************************************)

InitPool == PoolInit /\ FilterOff /\ PosOff /\ ResOff /\ MutOff /\ EnergyOff /\ SigOff

SpecPool == InitPool /\ [][PoolNext]_vars

\* the pool threads and the calling thread are scheduled fairly
FairSpecPool ==
    /\ InitPool
    /\ [][PoolNext]_vars
    /\ WF_vars(Submit) /\ WF_vars(Close) /\ WF_vars(Join) /\ WF_vars(Return)
    /\ \A w \in 1..MaxNp : WF_vars(w \in Workers /\ WorkerStart(w))
    /\ \A w \in 1..MaxNp :
          WF_vars(w \in Workers /\ \E ok \in BOOLEAN : WorkerFinish(w, ok))

InitFilter == FilterInit /\ PoolOff /\ PosOff /\ ResOff /\ MutOff /\ EnergyOff /\ SigOff

SpecFilter == InitFilter /\ [][FilterNext]_vars

InitPos == PosInit /\ PoolOff /\ FilterOff /\ ResOff /\ MutOff /\ EnergyOff /\ SigOff

SpecPos == InitPos /\ [][PosNext]_vars

InitRes == ResInit /\ PoolOff /\ FilterOff /\ PosOff /\ MutOff /\ EnergyOff /\ SigOff

SpecRes == InitRes /\ [][ResNext]_vars

InitMut == MutInit /\ PoolOff /\ FilterOff /\ PosOff /\ ResOff /\ EnergyOff /\ SigOff

SpecMut == InitMut /\ [][MutNext]_vars

InitEnergy == EnergyInit /\ PoolOff /\ FilterOff /\ PosOff /\ ResOff /\ MutOff /\ SigOff

SpecEnergy == InitEnergy /\ [][EnergyNext]_vars

InitSig ==
    SigInit /\ PoolOff /\ FilterOff /\ PosOff /\ ResOff /\ MutOff /\ EnergyOff

SpecSig == InitSig /\ [][SigNext]_vars

InitCompose ==
    ComposeInit /\ PoolOff /\ ResOff /\ MutOff /\ EnergyOff /\ SigOff

SpecCompose == InitCompose /\ [][ComposeNext]_vars

=============================================================================
